---------------------------- MODULE Spec2Model ----------------------------
(***************************************************************************)
(* A model of the cpputil library (namespace Utils): the big-endian buffer *)
(* writers, the vector helpers, the angle normalisation functions and the  *)
(* rate scheduler.  The functions are independent of each other, so every  *)
(* group has a specification of its own (SpecBuf and SpecRound, SpecVec,   *)
(* SpecNorm, SpecDist, SpecSched) over its own variables; the variables of *)
(* the other groups stay at their idle values.                             *)
(*                                                                         *)
(* TLC's integers are 32 bits wide, which is the width of int32_t: every   *)
(* intermediate value below stays inside that range.                       *)
(***************************************************************************)
EXTENDS Integers, Sequences, FiniteSets, TLC

VARIABLES
    \* ---- buffer writers: the caller's buffer and cursor
    buffer,      \* uint8_t buffer[BufLen], a function 0..BufLen-1 -> 0..255
    index,       \* int32_t index, the cursor the caller passes by pointer
    buf0,        \* history: the buffer before the first append
    c0,          \* history: the cursor before the first append
    prevIndex,   \* history: the cursor before the last append
    appended,    \* history: the calls made, <<width, number>> in call order
    \* ---- vector helpers
    vec,         \* std::vector<T> v (a sequence; v[i] of the code is vec[i+1])
    vx,          \* the element x looked for
    containsRes, \* <<>> before the call, then <<VecContains(v, x)>>
    indexRes,    \* <<>> before the call, then <<VecIndexOf(v, x)>>
    \* ---- angle helpers (angles in hundredths of a radian)
    angle,       \* the argument of NormalizeAnglePositive / NormalizeAngle
    napRes,      \* <<>> or <<NormalizeAnglePositive(angle)>>
    naRes,       \* <<>> or <<NormalizeAngle(angle)>>
    from,        \* ShortestAngularDistance's from
    to,          \* ShortestAngularDistance's to
    sadRes,      \* <<>> or <<ShortestAngularDistance(from, to)>>
    \* ---- rate scheduler (clock in ticks, ClockTicksPerMs ticks a millisecond)
    rate,        \* int rate
    start_time,  \* time_point start_time
    now,         \* high_resolution_clock::now()
    pc,          \* the caller's position inside ScheduleRate
    dt,          \* int dt (milliseconds)
    sleepReq,    \* <<>> or <<the milliseconds handed to sleep_for>>
    sleptTicks,  \* the ticks the thread was suspended for by sleep_for
    ret,         \* <<>> or <<the returned double, in thousandths of a second>>
    path,        \* which return statement was taken: "late" or "ontime"
    entryElapsed,\* history: now() - start_time at the read that gave dt
    drift        \* the ticks the clock advanced between statements so far

bufVars   == <<buffer, index, buf0, c0, prevIndex, appended>>
vecVars   == <<vec, vx, containsRes, indexRes>>
normVars  == <<angle, napRes, naRes>>
distVars  == <<from, to, sadRes>>
schedVars == <<rate, start_time, now, pc, dt, sleepReq, sleptTicks, ret, path,
               entryElapsed, drift>>
vars      == <<bufVars, vecVars, normVars, distVars, schedVars>>

\* The idle values of each group, used by the other groups' specifications.
BufIdle   == /\ buffer = <<>> /\ index = 0 /\ buf0 = <<>> /\ c0 = 0
             /\ prevIndex = 0 /\ appended = <<>>
VecIdle   == /\ vec = <<>> /\ vx = 0 /\ containsRes = <<>> /\ indexRes = <<>>
NormIdle  == /\ angle = 0 /\ napRes = <<>> /\ naRes = <<>>
DistIdle  == /\ from = 0 /\ to = 0 /\ sadRes = <<>>
SchedIdle == /\ rate = 1 /\ start_time = 0 /\ now = 0 /\ pc = "idle" /\ dt = 0
             /\ sleepReq = <<>> /\ sleptTicks = 0 /\ ret = <<>> /\ path = "none"
             /\ entryElapsed = 0 /\ drift = 0

Max(a, b) == IF a >= b THEN a ELSE b

(***************************************************************************)
(*                          BUFFER WRITERS                                 *)
(***************************************************************************)

\* The capacity of the caller's buffer.
BufLen == 6

INT16_MIN == -32768
INT16_MAX == 32767
INT32_MIN == -2147483647 - 1
INT32_MAX == 2147483647

\* The int16_t and int32_t numbers appended: the range ends, the values around
\* every byte boundary, and the values of the documented scenario.
Int16Values ==
    {INT16_MIN, INT16_MIN + 1, -257, -256, -255, -129, -128, -1,
     0, 1, 127, 128, 255, 256, 6699, INT16_MAX}
Int32Values ==
    {INT32_MIN, INT32_MIN + 1, -305419896, -16777217, -16777216, -65537,
     -65536, -32769, -1, 0, 1, 255, 65536, 16711935, 305419896, INT32_MAX}

\* number >> k on a signed operand: an arithmetic shift.
ShiftRight(number, k) == number \div (2 ^ k)

\* The conversion of an int to uint8_t on assignment to buffer[i].
ToUint8(n) == n % 256

\* Mutant: the two bytes stored low byte first.
BufAppendInt16_LowFirst(buf, number, idx) ==
    [buffer |-> [buf EXCEPT ![idx] = ToUint8(number),
                            ![idx + 1] = ToUint8(ShiftRight(number, 8))],
     index  |-> idx + 2]

\* void BufAppendInt16(uint8_t* buffer, int16_t number, int32_t* index)
BufAppendInt16(buf, number, idx) ==
    [buffer |-> [buf EXCEPT ![idx] = ToUint8(ShiftRight(number, 8)),
                            ![idx + 1] = ToUint8(number)],
     index  |-> idx + 2]

\* Mutant: the second byte shifted by 8 instead of 16.
BufAppendInt32_Shift8Twice(buf, number, idx) ==
    [buffer |-> [buf EXCEPT ![idx] = ToUint8(ShiftRight(number, 24)),
                            ![idx + 1] = ToUint8(ShiftRight(number, 8)),
                            ![idx + 2] = ToUint8(ShiftRight(number, 8)),
                            ![idx + 3] = ToUint8(number)],
     index  |-> idx + 4]

\* void BufAppendInt32(uint8_t* buffer, int32_t number, int32_t* index)
BufAppendInt32(buf, number, idx) ==
    [buffer |-> [buf EXCEPT ![idx] = ToUint8(ShiftRight(number, 24)),
                            ![idx + 1] = ToUint8(ShiftRight(number, 16)),
                            ![idx + 2] = ToUint8(ShiftRight(number, 8)),
                            ![idx + 3] = ToUint8(number)],
     index  |-> idx + 4]

\* The caller's buffer before the first append: any fill, any start cursor.
InitBuf ==
    /\ \E fill \in {0, 165, 255} : buf0 = [i \in 0 .. BufLen - 1 |-> fill]
    /\ c0 \in 0 .. BufLen
    /\ buffer = buf0
    /\ index = c0
    /\ prevIndex = c0
    /\ appended = <<>>
    /\ VecIdle /\ NormIdle /\ DistIdle /\ SchedIdle

\* A call of BufAppendInt16 on a buffer with room for two more bytes (a call
\* without room writes out of bounds, which the caller must prevent).
AppendInt16From(numbers) ==
    /\ index + 2 <= BufLen
    /\ \E number \in numbers :
         LET r == BufAppendInt16(buffer, number, index) IN
           /\ buffer' = r.buffer
           /\ index' = r.index
           /\ appended' = Append(appended, <<2, number>>)
    /\ prevIndex' = index
    /\ UNCHANGED <<buf0, c0, vecVars, normVars, distVars, schedVars>>

CallBufAppendInt16 == AppendInt16From(Int16Values)

\* A call of BufAppendInt32 on a buffer with room for four more bytes.
CallBufAppendInt32 ==
    /\ index + 4 <= BufLen
    /\ \E number \in Int32Values :
         LET r == BufAppendInt32(buffer, number, index) IN
           /\ buffer' = r.buffer
           /\ index' = r.index
           /\ appended' = Append(appended, <<4, number>>)
    /\ prevIndex' = index
    /\ UNCHANGED <<buf0, c0, vecVars, normVars, distVars, schedVars>>

NextBuf == CallBufAppendInt16 \/ CallBufAppendInt32

SpecBuf == InitBuf /\ [][NextBuf]_vars

\* One append of any int16_t whatever, or of one of the int32_t numbers, to a
\* zeroed buffer, at the front or in the last two bytes.
InitRound ==
    /\ InitBuf
    /\ buf0 = [i \in 0 .. BufLen - 1 |-> 0]
    /\ c0 \in {0, BufLen - 2}

FirstBufAppendInt16 ==
    /\ appended = <<>>
    /\ AppendInt16From(INT16_MIN .. INT16_MAX)

FirstBufAppendInt32 ==
    /\ appended = <<>>
    /\ CallBufAppendInt32

NextRound == FirstBufAppendInt16 \/ FirstBufAppendInt32

SpecRound == InitRound /\ [][NextRound]_vars


\* ---- what a reader of the buffer does (not part of the library) ----------

\* The bytes buf[c], ..., buf[c + w - 1] as a sequence.
BytesAt(buf, c, w) == [i \in 1 .. w |-> buf[c + i - 1]]

\* The big-endian two's complement reading of two or four bytes.
DecodeInt16BE(b) ==
    LET u == b[1] * 256 + b[2] IN IF u >= 32768 THEN u - 65536 ELSE u
DecodeInt32BE(b) ==
    (IF b[1] >= 128 THEN b[1] - 256 ELSE b[1]) * 16777216
        + b[2] * 65536 + b[3] * 256 + b[4]
DecodeBE(w, b) == IF w = 2 THEN DecodeInt16BE(b) ELSE DecodeInt32BE(b)

RECURSIVE WidthSum(_, _)
\* The bytes written by the first k calls.
WidthSum(calls, k) == IF k = 0 THEN 0 ELSE WidthSum(calls, k - 1) + calls[k][1]

\* C1: after BufAppendInt16 (BufAppendInt32) of a number n at cursor c, reading
\* the two (four) bytes at c back as a big-endian signed integer gives n
\* exactly, negative numbers included, and the cursor is c + 2 (c + 4).
C1_RoundTrip ==
    appended # <<>> =>
        LET last == appended[Len(appended)] IN
          /\ index = prevIndex + last[1]
          /\ DecodeBE(last[1], BytesAt(buffer, prevIndex, last[1])) = last[2]

\* C1's case: a negative int16 appended at a cursor that is not 0.
C1_Witness ==
    /\ c0 = BufLen - 2
    /\ appended = <<<<2, -12345>>>>
    /\ BytesAt(buffer, c0, 2) = <<207, 199>>
    /\ index = BufLen

\* C2: after any sequence of appends from cursor c0, the bytes in [c0, index)
\* are the big-endian encodings of the appended numbers in call order, index is
\* c0 plus the widths written, and every byte outside [c0, index) is the one
\* the buffer held before; AppendInt32(0x12345678) then AppendInt16(0x1A2B)
\* from cursor 0 gives 12 34 56 78 1A 2B and cursor 6.
C2_Concatenation ==
    /\ index = c0 + WidthSum(appended, Len(appended))
    /\ \A k \in 1 .. Len(appended) :
         DecodeBE(appended[k][1],
                  BytesAt(buffer, c0 + WidthSum(appended, k - 1), appended[k][1]))
            = appended[k][2]
    /\ \A i \in 0 .. BufLen - 1 : (i < c0 \/ i >= index) => buffer[i] = buf0[i]
    /\ (c0 = 0 /\ appended = <<<<4, 305419896>>, <<2, 6699>>>>) =>
         /\ BytesAt(buffer, 0, 6) = <<18, 52, 86, 120, 26, 43>>
         /\ index = 6

\* C2's case: the documented scenario, on a buffer that was not all zero.
C2_Witness ==
    /\ c0 = 0
    /\ buf0[0] = 255
    /\ appended = <<<<4, 305419896>>, <<2, 6699>>>>

(***************************************************************************)
(*                          VECTOR HELPERS                                 *)
(***************************************************************************)

\* The longest vector and the number of distinct elements in the vectors.
MaxVecLen == 4
NumElems  == 3

RECURSIVE FindLastFrom(_, _, _)
\* Mutant: a scan that keeps the last equal element.
FindLastFrom(v, x, i) ==
    IF i >= Len(v) THEN Len(v)
    ELSE LET rest == FindLastFrom(v, x, i + 1) IN
           IF rest < Len(v) THEN rest
           ELSE IF v[i + 1] = x THEN i ELSE Len(v)

RECURSIVE FindFrom(_, _, _)
\* std::find(v.begin() + i, v.end(), x) - v.begin(): the linear scan, which
\* stops at the first equal element and gives v.size() when there is none.
FindFrom(v, x, i) ==
    IF i >= Len(v) THEN Len(v)
    ELSE IF v[i + 1] = x THEN i
    ELSE FindFrom(v, x, i + 1)

\* bool VecContains(const std::vector<T> v, const T x)
VecContains(v, x) == FindFrom(v, x, 0) # Len(v)

\* long VecIndexOf(const std::vector<T> v, const T x)
VecIndexOf(v, x) ==
    LET pos == FindFrom(v, x, 0) IN
      IF pos >= Len(v) THEN -1 ELSE pos

\* Every vector of at most MaxVecLen elements, and an element that may or may
\* not occur in it (0 occurs in no vector).
InitVec ==
    /\ \E n \in 0 .. MaxVecLen : vec \in [1 .. n -> 1 .. NumElems]
    /\ vx \in 0 .. NumElems
    /\ containsRes = <<>>
    /\ indexRes = <<>>
    /\ BufIdle /\ NormIdle /\ DistIdle /\ SchedIdle

CallVecContains ==
    /\ containsRes = <<>>
    /\ containsRes' = <<VecContains(vec, vx)>>
    /\ UNCHANGED <<vec, vx, indexRes, bufVars, normVars, distVars, schedVars>>

CallVecIndexOf ==
    /\ indexRes = <<>>
    /\ indexRes' = <<VecIndexOf(vec, vx)>>
    /\ UNCHANGED <<vec, vx, containsRes, bufVars, normVars, distVars, schedVars>>

NextVec == CallVecContains \/ CallVecIndexOf

SpecVec == InitVec /\ [][NextVec]_vars

\* C9: VecContains(v, x) is true exactly when VecIndexOf(v, x) is not -1; when
\* x occurs in v, VecIndexOf gives the smallest i with v[i] = x, and when it
\* does not occur (the empty vector included) it gives -1.
C9_IndexOfContains ==
    LET occurs == {i \in 0 .. Len(vec) - 1 : vec[i + 1] = vx} IN
      /\ (containsRes # <<>> /\ indexRes # <<>>) =>
            (containsRes[1] <=> indexRes[1] # -1)
      /\ containsRes # <<>> => (containsRes[1] <=> occurs # {})
      /\ indexRes # <<>> =>
            IF occurs = {} THEN indexRes[1] = -1
            ELSE /\ indexRes[1] \in occurs
                 /\ \A i \in occurs : indexRes[1] <= i

\* C9's case: both functions called for an element that occurs twice, the
\* first time not at the front.
C9_Witness ==
    /\ containsRes = <<TRUE>>
    /\ indexRes = <<1>>
    /\ Len(vec) = 4
    /\ vec[4] = vx

(***************************************************************************)
(*                          ANGLE HELPERS                                  *)
(*                                                                         *)
(* A double angle is modelled in fixed point, as a whole number of         *)
(* hundredths of a radian: 3.0 rad is 300 and M_PI is 314.  fmod, + and -  *)
(* are exact on these numbers, so the model computes what the code         *)
(* computes up to the rounding of double arithmetic.                       *)
(***************************************************************************)

\* M_PI of <cmath>, in hundredths of a radian.
M_PI == 314

\* (2.0 * M_PI)
TwoPi == 2 * M_PI

\* fmod(x, y) for y > 0: the remainder of the division truncated toward zero,
\* which has the sign of x.
Fmod(x, y) == IF x >= 0 THEN x % y ELSE -((-x) % y)

\* Mutant: a single fmod, without the + 2 pi and the second fmod.
NormalizeAnglePositive_SingleFmod(a) == Fmod(a, TwoPi)

\* double NormalizeAnglePositive(double angle)
NormalizeAnglePositive(a) == Fmod(Fmod(a, TwoPi) + TwoPi, TwoPi)

\* Mutant: a >= M_PI in place of a > M_PI.
NormalizeAngle_AtPi(a0) ==
    LET a == NormalizeAnglePositive(a0) IN
      IF a >= M_PI THEN a - TwoPi ELSE a

\* double NormalizeAngle(double angle)
NormalizeAngle(a0) ==
    LET a == NormalizeAnglePositive(a0) IN
      IF a > M_PI THEN a - TwoPi ELSE a

\* Mutant: the two operands of the subtraction exchanged.
ShortestAngularDistance_Swapped(f, t) ==
    LET result == NormalizeAnglePositive(
                      NormalizeAnglePositive(f) - NormalizeAnglePositive(t))
        short  == IF result > M_PI THEN -(TwoPi - result) ELSE result
    IN  NormalizeAngle(short)

\* Mutant: the positive difference returned as it is, not folded to the short
\* way round.
ShortestAngularDistance_Unfolded(f, t) ==
    NormalizeAnglePositive(NormalizeAnglePositive(t) - NormalizeAnglePositive(f))

\* double ShortestAngularDistance(double from, double to)
ShortestAngularDistance(f, t) ==
    LET result == NormalizeAnglePositive(
                      NormalizeAnglePositive(t) - NormalizeAnglePositive(f))
        short  == IF result > M_PI THEN -(TwoPi - result) ELSE result
    IN  NormalizeAngle(short)

\* The largest |angle| normalised, and the largest |from|: every angle up to
\* them is tried (MaxAngle is more than two revolutions).
MaxAngle == 1300
MaxFrom  == 700

\* Angles of many revolutions: 100 pi + 0.3 and its like.
FarAngles == {-31430, -31400, -6280, 6280, 31400, 31430}

\* The values of to: around every multiple of pi, and far away.
ToAngles ==
    {-1300, -943, -942, -941, -700, -629, -628, -627, -315, -314, -313, -300,
     -157, -50, -1, 0, 1, 50, 157, 300, 313, 314, 315, 627, 628, 629, 700,
     941, 942, 943, 1300} \cup FarAngles

InitNorm ==
    /\ angle \in (-MaxAngle .. MaxAngle) \cup FarAngles
    /\ napRes = <<>>
    /\ naRes = <<>>
    /\ BufIdle /\ VecIdle /\ DistIdle /\ SchedIdle

CallNormalizeAnglePositive ==
    /\ napRes = <<>>
    /\ napRes' = <<NormalizeAnglePositive(angle)>>
    /\ UNCHANGED <<angle, naRes, bufVars, vecVars, distVars, schedVars>>

CallNormalizeAngle ==
    /\ naRes = <<>>
    /\ naRes' = <<NormalizeAngle(angle)>>
    /\ UNCHANGED <<angle, napRes, bufVars, vecVars, distVars, schedVars>>

NextNorm == CallNormalizeAnglePositive \/ CallNormalizeAngle

SpecNorm == InitNorm /\ [][NextNorm]_vars

InitDist ==
    /\ from \in (-MaxFrom .. MaxFrom) \cup FarAngles
    /\ to \in ToAngles \cup {from}
    /\ sadRes = <<>>
    /\ BufIdle /\ VecIdle /\ NormIdle /\ SchedIdle

CallShortestAngularDistance ==
    /\ sadRes = <<>>
    /\ sadRes' = <<ShortestAngularDistance(from, to)>>
    /\ UNCHANGED <<from, to, bufVars, vecVars, normVars, schedVars>>

NextDist == CallShortestAngularDistance

SpecDist == InitDist /\ [][NextDist]_vars

\* C3 as stated: ShortestAngularDistance(3.0, -3.0) is negative, with
\* magnitude 2 pi - 6 (about -0.283).
C3_Original ==
    (from = 300 /\ to = -300 /\ sadRes # <<>>) => sadRes[1] = -(TwoPi - 600)

\* C3, amended: ShortestAngularDistance(3.0, -3.0) is positive, 2 pi - 6
\* (about +0.283): the short way from 3.0 to -3.0 goes up through pi.
C3_PositiveThroughPi ==
    (from = 300 /\ to = -300 /\ sadRes # <<>>) =>
        /\ sadRes[1] = TwoPi - 600
        /\ sadRes[1] > 0

\* C3's case: the call made with from = 3.0 and to = -3.0.
C3_Witness == from = 300 /\ to = -300 /\ sadRes # <<>>

\* C4: d = ShortestAngularDistance(from, to) lies in (-pi, pi], from + d is
\* to up to whole turns (NormalizeAngle(from + d) = NormalizeAngle(to)), and
\* ShortestAngularDistance(a, a) = 0.
C4_ShortWayRound ==
    sadRes # <<>> =>
        LET d == sadRes[1] IN
          /\ -M_PI < d /\ d <= M_PI
          /\ (from + d - to) % TwoPi = 0
          /\ NormalizeAngle(from + d) = NormalizeAngle(to)
          /\ from = to => d = 0

\* C4's case: a difference of more than pi, answered the negative way round.
C4_Witness == from = 100 /\ to = 627 /\ sadRes = <<-101>>

\* C5: NormalizeAnglePositive(a) lies in [0, 2 pi) and differs from a by a
\* whole multiple of 2 pi, for negative a and a of many revolutions too.
C5_PositiveRange ==
    napRes # <<>> =>
        /\ 0 <= napRes[1] /\ napRes[1] < TwoPi
        /\ (angle - napRes[1]) % TwoPi = 0

\* C5's case: a negative angle of fifty revolutions.
C5_Witness == angle = -31430 /\ napRes = <<598>>

\* C6: NormalizeAngle(a) lies in (-pi, pi]; an angle congruent to pi gives
\* +pi, never -pi.
C6_HalfOpenRange ==
    naRes # <<>> =>
        /\ -M_PI < naRes[1] /\ naRes[1] <= M_PI
        /\ (angle - M_PI) % TwoPi = 0 => naRes[1] = M_PI

\* C6's case: -3 pi, which is congruent to pi.
C6_Witness == angle = -3 * M_PI /\ naRes = <<M_PI>>

(***************************************************************************)
(*                          RATE SCHEDULER                                 *)
(*                                                                         *)
(* The clock counts ticks, ClockTicksPerMs of them a millisecond, so that  *)
(* duration_cast<milliseconds> has something to truncate.  ScheduleRate is *)
(* modelled statement by statement, because the clock goes on between the  *)
(* read that gives dt and the statements after it.  The returned double    *)
(* (a count of milliseconds divided by 1000.0) is kept as that count.      *)
(***************************************************************************)

\* The resolution of the clock.
ClockTicksPerMs == 2

\* How far in the future start_time may lie, and how long ago, in ticks, and
\* how close to the period the elapsed time at entry is taken.
MaxEarlyTicks   == 3
MaxElapsedTicks == 6

\* The latest start_time.
MaxStart == 1

\* The ticks the clock may advance between two statements of one call, and
\* the ticks sleep_for may oversleep.
MaxDrift     == 3
MaxOvershoot == 1

\* The rates (Hz): 1, rates that divide 1000 and rates that do not, and rates
\* with a period under the 2 ms allowance and under 1 ms.
Rates == {1, 3, 7, 60, 100, 300, 500, 600, 1000, 1001}

\* The conversion of a quotient to an integer in C++: int / int, double to
\* int, and duration_cast to a coarser integer duration all truncate toward
\* zero (den > 0).
TruncDiv(num, den) ==
    IF num >= 0 THEN num \div den ELSE -((-num) \div den)

\* duration_cast<milliseconds>(now() - start_time).count()
DurationCastMs(ticks) == TruncDiv(ticks, ClockTicksPerMs)

\* 1000 / rate, an int division
Threshold(r) == TruncDiv(1000, r)

\* Mutant: the int quotient 1000 / rate in place of 1000.0 / rate.
SleepDuration_IntPeriod(r, d) == TruncDiv(1000, r) - d - 2

\* Mutant: an allowance of 3 ms in place of 2.
SleepDuration_Allow3(r, d) == TruncDiv(1000 - (d + 3) * r, r)

\* int(1000.0 / rate - dt - 2): the real number (1000 - (dt + 2) rate) / rate
\* truncated toward zero.
SleepDuration(r, d) == TruncDiv(1000 - (d + 2) * r, r)

\* Mutant: the elapsed time read again from the clock.
LateReturn_Live(d, liveMs) == liveMs

\* return dt / 1000.0;  (in the else branch; liveMs is what a new read of the
\* clock would give)
LateReturn(d, liveMs) == d

\* The elapsed ticks at the first read of the clock: around zero (start_time
\* may lie in the future) and around the period of the rate.
EntryElapsed(r) ==
    (-MaxEarlyTicks .. MaxElapsedTicks)
    \cup {(1000 * ClockTicksPerMs) \div r + k :
            k \in -MaxElapsedTicks .. MaxElapsedTicks}

\* ScheduleRate(rate, start_time) has just been called.
InitSched ==
    /\ rate \in Rates
    /\ start_time \in 0 .. MaxStart
    /\ \E e \in EntryElapsed(rate) : now = start_time + e
    /\ pc = "call"
    /\ dt = 0
    /\ sleepReq = <<>>
    /\ sleptTicks = 0
    /\ ret = <<>>
    /\ path = "none"
    /\ entryElapsed = 0
    /\ drift = 0
    /\ BufIdle /\ VecIdle /\ NormIdle /\ DistIdle

\* The clock advances between two statements of the call.
ClockTick ==
    /\ pc \in {"test", "recompute"}
    /\ drift < MaxDrift
    /\ now' = now + 1
    /\ drift' = drift + 1
    /\ UNCHANGED <<rate, start_time, pc, dt, sleepReq, sleptTicks, ret, path,
                   entryElapsed, bufVars, vecVars, normVars, distVars>>

\* int dt = duration_cast<milliseconds>(now() - start_time).count();
ReadClock ==
    /\ pc = "call"
    /\ dt' = DurationCastMs(now - start_time)
    /\ entryElapsed' = now - start_time
    /\ pc' = "test"
    /\ UNCHANGED <<rate, start_time, now, sleepReq, sleptTicks, ret, path,
                   drift, bufVars, vecVars, normVars, distVars>>

\* if (dt < 1000 / rate): the argument of sleep_for is computed.
SleepBranch ==
    /\ pc = "test"
    /\ dt < Threshold(rate)
    /\ sleepReq' = <<SleepDuration(rate, dt)>>
    /\ pc' = "sleep"
    /\ UNCHANGED <<rate, start_time, now, dt, sleptTicks, ret, path,
                   entryElapsed, drift, bufVars, vecVars, normVars, distVars>>

\* else return dt / 1000.0;
LateBranch ==
    /\ pc = "test"
    /\ ~(dt < Threshold(rate))
    /\ ret' = <<LateReturn(dt, DurationCastMs(now - start_time))>>
    /\ path' = "late"
    /\ pc' = "done"
    /\ UNCHANGED <<rate, start_time, now, dt, sleepReq, sleptTicks,
                   entryElapsed, drift, bufVars, vecVars, normVars, distVars>>

\* std::this_thread::sleep_for(milliseconds(...)): the thread is suspended for
\* at least the duration, and not at all for a duration of zero or less.
SleepFor ==
    /\ pc = "sleep"
    /\ \E over \in 0 .. MaxOvershoot :
         sleptTicks' = IF sleepReq[1] > 0
                       THEN sleepReq[1] * ClockTicksPerMs + over
                       ELSE 0
    /\ now' = now + sleptTicks'
    /\ pc' = "recompute"
    /\ UNCHANGED <<rate, start_time, dt, sleepReq, ret, path, entryElapsed,
                   drift, bufVars, vecVars, normVars, distVars>>

\* return duration_cast<milliseconds>(now() - start_time).count() / 1000.0;
ReturnElapsed ==
    /\ pc = "recompute"
    /\ ret' = <<DurationCastMs(now - start_time)>>
    /\ path' = "ontime"
    /\ pc' = "done"
    /\ UNCHANGED <<rate, start_time, now, dt, sleepReq, sleptTicks,
                   entryElapsed, drift, bufVars, vecVars, normVars, distVars>>

NextSched ==
    \/ ClockTick
    \/ ReadClock
    \/ SleepBranch
    \/ LateBranch
    \/ SleepFor
    \/ ReturnElapsed

SpecSched == InitSched /\ [][NextSched]_vars

\* q is the real number num / den with its fraction dropped (den > 0).
IsTruncated(q, num, den) ==
    IF num >= 0 THEN q * den <= num /\ num < (q + 1) * den
    ELSE (q - 1) * den < num /\ num <= q * den

\* C7 as stated: whenever the time elapsed at entry is less than the period
\* 1000 / rate ms (not rounded), ScheduleRate takes the on-time path, sleeps
\* period - elapsed - 2 ms and returns the elapsed time measured after it.
C7_Original ==
    (pc = "done" /\ entryElapsed * rate < 1000 * ClockTicksPerMs) =>
        /\ path = "ontime"
        /\ sleepReq # <<>>
        /\ sleepReq[1] * ClockTicksPerMs * rate
              = 1000 * ClockTicksPerMs - entryElapsed * rate
                  - 2 * ClockTicksPerMs * rate
        /\ IsTruncated(ret[1], now - start_time, ClockTicksPerMs)

\* C7, amended: whenever the whole milliseconds elapsed at entry, dt, are
\* fewer than the integer quotient 1000 / rate, ScheduleRate takes the on-time
\* path: it hands sleep_for the period less dt less 2 ms with the fraction
\* dropped, is suspended for at least that long when it is positive, and only
\* then returns the whole milliseconds elapsed at that moment.
C7_OnTimePath ==
    (pc = "done" /\ dt < 1000 \div rate) =>
        /\ path = "ontime"
        /\ sleepReq # <<>>
        /\ IsTruncated(sleepReq[1], 1000 - (dt + 2) * rate, rate)
        /\ sleptTicks >= sleepReq[1] * ClockTicksPerMs
        /\ now - start_time >= entryElapsed + sleptTicks
        /\ IsTruncated(ret[1], now - start_time, ClockTicksPerMs)

\* C7's case: a call on time at 300 Hz that slept and returned.
C7_Witness ==
    /\ pc = "done"
    /\ rate = 300
    /\ dt = 0
    /\ sleepReq = <<1>>
    /\ sleptTicks > 0

\* C8 as stated: when the time elapsed at entry is the period or more,
\* ScheduleRate returns without sleeping, and returns the elapsed time read
\* from the clock again, not the dt measured at entry.
C8_Original ==
    (pc = "done" /\ entryElapsed * rate >= 1000 * ClockTicksPerMs) =>
        /\ sleepReq = <<>>
        /\ sleptTicks = 0
        /\ IsTruncated(ret[1], now - start_time, ClockTicksPerMs)

\* C8, amended: when the time elapsed at entry is the period or more,
\* ScheduleRate returns without sleeping, and returns the dt measured at
\* entry (the whole milliseconds elapsed at the first read of the clock).
C8_LateReturnsDt ==
    (pc = "done" /\ entryElapsed * rate >= 1000 * ClockTicksPerMs) =>
        /\ path = "late"
        /\ sleepReq = <<>>
        /\ sleptTicks = 0
        /\ ret = <<dt>>
        /\ IsTruncated(ret[1], entryElapsed, ClockTicksPerMs)

\* C8's case: a late call during which the clock went on by a millisecond or
\* more before the return.
C8_Witness ==
    /\ pc = "done"
    /\ path = "late"
    /\ rate = 300
    /\ ret = <<3>>
    /\ now - start_time >= 4 * ClockTicksPerMs

\* C10 as stated: the duration handed to sleep_for is never negative and
\* never more than the period less 2 ms (read for an elapsed time dt that is
\* not negative, the reading under which most of it holds).
C10_Original ==
    (sleepReq # <<>> /\ dt >= 0) =>
        /\ sleepReq[1] >= 0
        /\ sleepReq[1] * rate <= 1000 - 2 * rate

\* C10, amended: the duration handed to sleep_for is never less than -1 ms,
\* and never more than the period less dt less 2 ms or zero, whichever is the
\* larger; so for a start_time not in the future (dt >= 0) it is never more
\* than the period less 2 ms, or zero.
C10_SleepBounds ==
    sleepReq # <<>> =>
        /\ dt < 1000 \div rate
        /\ sleepReq[1] >= -1
        /\ sleepReq[1] * rate <= Max(0, 1000 - (dt + 2) * rate)
        /\ dt >= 0 => sleepReq[1] * rate <= Max(0, 1000 - 2 * rate)

\* C10's case: 1000 Hz with no time elapsed, where the duration is -1 ms.
C10_Witness == rate = 1000 /\ dt = 0 /\ sleepReq = <<-1>>

=============================================================================
